---- MODULE Spec2Model ----
(***************************************************************************)
(* A model of scripts/soak/analyze-soak-telemetry.py: the record loader    *)
(* (load_ndjson, admission_event_paths, load_ndjson_many), the two         *)
(* reducers (compute_metrics, compute_workload_metrics), ratio, the         *)
(* recommendation rules (suggestions) and the ranked lists of the report   *)
(* (generate_report).                                                      *)
(*                                                                         *)
(* A list the program iterates over is read one element per step.  The     *)
(* reducers' inputs are supplied row by row from the sets EventRows,       *)
(* StatusRows and WorkloadRows; events, status_rows and workload_rows hold *)
(* the rows folded so far as bags (the order of a list is the order of the *)
(* steps).  Under SpecLoad the rows come from the files of a directory;    *)
(* under SpecTwice the reducers are called twice on the same three lists.  *)
(***************************************************************************)
EXTENDS Integers, Sequences, FiniteSets, Bags, TLC

VARIABLES
    pc,             \* position in main(): which loop or call runs next
    err,            \* the exception that ended the run ("" when none)
    dir,            \* the directory entries matching orchestration-admission.ndjson*
    content,        \* per entry of dir: the lines read from it so far
    status_file,    \* status.ndjson: "unknown" | "missing" | "present"
    status_lines,   \* the lines read from status.ndjson so far
    event_files,    \* admission_event_paths(artifact_dir)
    file_idx,       \* load_ndjson_many: index of the path being loaded
    rows,           \* load_ndjson: rows of the file being loaded
    loaded,         \* load_ndjson_many: rows of all files loaded so far
    loaded_status,  \* load_ndjson(status.ndjson)
    cursor,         \* index of the next loaded row a reducer folds
    events,         \* bag of the admission events folded so far
    status_rows,    \* bag of the status samples folded so far
    workload_rows,  \* bag of the workload events folded so far
    metrics,        \* compute_metrics: its locals, then the SoakMetrics returned
    workload,       \* compute_workload_metrics: its locals, then the WorkloadMetrics
    ratios,         \* suggestions: the four ratios it computes first
    out,            \* suggestions: the list returned
    report,         \* generate_report: the ranked lists of the report, in section order
    ratio_args,     \* ratio: <<numerator, denominator>> of a direct call
    ratio_result,   \* ratio: the value that call returned
    loaded_workload, \* load_ndjson(workload.ndjson), when the reducers are called twice
    previous        \* the outcome of the reducers' first call, <<>> before it ended

loadVars == <<dir, content, status_file, status_lines, event_files, file_idx,
              rows, loaded, loaded_status, cursor>>
foldVars == <<events, status_rows, workload_rows, metrics, workload>>
sugVars == <<ratios, out, report>>
ratioVars == <<ratio_args, ratio_result>>
twiceVars == <<loaded_workload, previous>>
vars == <<pc, err, loadVars, foldVars, sugVars, ratioVars, twiceVars>>

(***************************************************************************)
(* Bounds.                                                                 *)
(***************************************************************************)
\* the rows of all three input lists together, under Spec
MaxRows == 4
\* the admission events of the scenario of SpecScenario
MaxScenario == 10
\* the entries of the artifact directory that match the glob, under SpecLoad
MaxFiles == 3
\* the workload events beside the scenario, under SpecScenario
MaxScenarioWorkload == 1
\* the lines of all admission logs together, or of status.ndjson, under SpecLoad
MaxLines == 3
\* |numerator| and |denominator| of a direct call of ratio, under SpecRatio
MaxNum == 6
\* the rows of all three input lists together, under SpecTwice
MaxTwice == 2

(***************************************************************************)
(* JSON values as Python sees them after json.loads.  absent: the key is   *)
(* not in the mapping.  A "map" is a JSON object.                          *)
(***************************************************************************)
Absent == [t |-> "absent", n |-> 0, s |-> ""]
Null == [t |-> "null", n |-> 0, s |-> ""]
Num(i) == [t |-> "int", n |-> i, s |-> ""]
Text(x) == [t |-> "str", n |-> 0, s |-> x]
Flag(b) == [t |-> "bool", n |-> IF b THEN 1 ELSE 0, s |-> ""]
Map == [t |-> "map", n |-> 0, s |-> ""]

\* the decimal strings the model's inputs use, "0" .. "9"
Decimals == <<"0", "1", "2", "3", "4", "5", "6", "7", "8", "9">>

IsDecimal(x) == \E i \in 1..Len(Decimals) : Decimals[i] = x

DecimalValue(x) == (CHOOSE i \in 1..Len(Decimals) : Decimals[i] = x) - 1

\* mapping.get(key, default): the default only when the key is absent
DictGet(v, default) == IF v.t = "absent" THEN default ELSE v

\* Python truth value: None, False, 0, "" are false (an empty mapping too: it
\* behaves as the {} that replaces it, so a map counts as true here)
Truthy(v) ==
    CASE v.t = "null" -> FALSE
      [] v.t = "absent" -> FALSE
      [] v.t = "bool" -> v.n = 1
      [] v.t = "int" -> v.n # 0
      [] v.t = "str" -> v.s # ""
      [] OTHER -> TRUE

\* str(v)
PyStr(v) ==
    CASE v.t = "str" -> v.s
      [] v.t = "null" -> "None"
      [] v.t = "bool" -> IF v.n = 1 THEN "True" ELSE "False"
      [] v.t = "int" /\ v.n \in 0..9 -> Decimals[v.n + 1]
      [] OTHER -> "{}"

\* int(v): the exception it raises, "" when it returns
PyIntFault(v) ==
    CASE v.t = "int" -> ""
      [] v.t = "bool" -> ""
      [] v.t = "str" -> IF IsDecimal(v.s) THEN "" ELSE "ValueError"
      [] OTHER -> "TypeError"

\* int(v) when it returns
PyInt(v) ==
    CASE v.t = "int" -> v.n
      [] v.t = "bool" -> v.n
      [] v.t = "str" /\ IsDecimal(v.s) -> DecimalValue(v.s)
      [] OTHER -> 0

\* (mapping.get(key) or {}).get(inner, default): v is the value under key, inner
\* the value under the inner key when v is a mapping
SubGetFault(v) == IF Truthy(v) /\ v.t # "map" THEN "AttributeError" ELSE ""

SubGet(v, inner, default) == IF v.t = "map" THEN DictGet(inner, default) ELSE default

Max2(a, b) == IF a >= b THEN a ELSE b

\* the first exception of a sequence of evaluations
FirstFault(faults) ==
    IF \E i \in 1..Len(faults) : faults[i] # ""
    THEN faults[CHOOSE i \in 1..Len(faults) :
                  faults[i] # "" /\ \A j \in 1..(i - 1) : faults[j] = ""]
    ELSE ""

(***************************************************************************)
(* collections.Counter: the labels in insertion order, each with its count *)
(***************************************************************************)
EmptyCounter == <<>>

CounterHas(c, k) == \E i \in 1..Len(c) : c[i].k = k

\* c.get(k, 0)
CounterGet(c, k) ==
    IF CounterHas(c, k) THEN c[CHOOSE i \in 1..Len(c) : c[i].k = k].n ELSE 0

\* c[k] += 1
CounterInc(c, k) ==
    IF CounterHas(c, k)
    THEN [i \in 1..Len(c) |-> IF c[i].k = k THEN [k |-> k, n |-> c[i].n + 1] ELSE c[i]]
    ELSE Append(c, [k |-> k, n |-> 1])

RECURSIVE CounterTotal(_)
CounterTotal(c) == IF c = <<>> THEN 0 ELSE Head(c).n + CounterTotal(Tail(c))

(***************************************************************************)
(* load_ndjson.  A line is known by what strip() and json.loads make of    *)
(* it: blank (whitespace only), garbage (json.loads raises                 *)
(* JSONDecodeError: not JSON, or a partial line), value (JSON, but not an  *)
(* object) or object (then row is the mapping it parses to).               *)
(***************************************************************************)
Line(form, row) == [form |-> form, row |-> row]

\* line.strip() is empty (line 34)
IsBlank(line) == line.form = "blank"

\* json.loads(text) raises JSONDecodeError (lines 36-39)
JsonFault(line) == line.form = "garbage"

\* isinstance(parsed, dict) (line 40)
IsDict(line) == line.form = "object"

\* a loader that keeps every value that parses
LoadStep_any(rows_so_far, line) ==
    IF IsBlank(line) \/ JsonFault(line) THEN rows_so_far ELSE Append(rows_so_far, line.row)

\* the body of the loop of load_ndjson, lines 33-41
LoadStep(rows_so_far, line) ==
    IF IsBlank(line) THEN rows_so_far
    ELSE IF JsonFault(line) THEN rows_so_far
    ELSE IF IsDict(line) THEN Append(rows_so_far, line.row)
    ELSE rows_so_far

(***************************************************************************)
(* admission_event_paths.  A file name is the sequence of its characters;  *)
(* an entry of the directory is known by the part of its name that follows *)
(* orchestration-admission.ndjson (what the * of the glob matched).        *)
(***************************************************************************)
BaseName ==
    <<"o", "r", "c", "h", "e", "s", "t", "r", "a", "t", "i", "o", "n", "-",
      "a", "d", "m", "i", "s", "s", "i", "o", "n", ".", "n", "d", "j", "s", "o", "n">>

\* path.name
Name(tail) == BaseName \o tail

\* the characters of the names, in code-point order
CharOrder ==
    <<"-", ".", "0", "1", "2", "3", "4", "5", "6", "7", "8", "9",
      "a", "b", "c", "d", "e", "f", "g", "h", "i", "j", "k", "l", "m",
      "n", "o", "p", "q", "r", "s", "t", "u", "v", "w", "x", "y", "z">>

\* ord(ch), as the position of the character in CharOrder
OrdOf ==
    [ch \in {CharOrder[i] : i \in 1..Len(CharOrder)} |->
        CHOOSE i \in 1..Len(CharOrder) : CharOrder[i] = ch]

Ord(ch) == OrdOf[ch]

\* a < b for Python strings
RECURSIVE StrLess(_, _)
StrLess(a, b) ==
    IF b = <<>> THEN FALSE
    ELSE IF a = <<>> THEN TRUE
    ELSE IF Head(a) = Head(b) THEN StrLess(Tail(a), Tail(b))
    ELSE Ord(Head(a)) < Ord(Head(b))

\* name.rsplit(".", 1)[-1]
RSplitLast(name) ==
    IF \E i \in 1..Len(name) : name[i] = "."
    THEN LET dot == CHOOSE i \in 1..Len(name) :
                        name[i] = "." /\ \A j \in (i + 1)..Len(name) : name[j] # "."
         IN  SubSeq(name, dot + 1, Len(name))
    ELSE name

\* suffix.isdigit()
IsDigit(suffix) ==
    /\ suffix # <<>>
    /\ \A i \in 1..Len(suffix) : Ord(suffix[i]) \in Ord("0")..Ord("9")

\* int(suffix)
RECURSIVE StrToInt(_)
StrToInt(suffix) ==
    IF suffix = <<>> THEN 0
    ELSE StrToInt(SubSeq(suffix, 1, Len(suffix) - 1)) * 10
             + (Ord(suffix[Len(suffix)]) - Ord("0"))

\* the key of a file that has no numeric suffix, line 55
NoSuffixKey == 9999999

\* a key that compares the names alone
sort_key_by_name(name) == <<0, name>>

\* lines 48-55
sort_key(name) ==
    IF name = BaseName THEN <<0, name>>
    ELSE IF IsDigit(RSplitLast(name)) THEN <<StrToInt(RSplitLast(name)), name>>
    ELSE <<NoSuffixKey, name>>

\* k1 < k2 for tuple[int, str]
KeyLess(k1, k2) == k1[1] < k2[1] \/ (k1[1] = k2[1] /\ StrLess(k1[2], k2[2]))

\* sorted(tails, key=sort_key of the name): the keys of different names differ
RECURSIVE Sorted(_)
Sorted(tails) ==
    IF tails = {} THEN <<>>
    ELSE LET first == CHOOSE t \in tails :
                          \A u \in tails \ {t} : KeyLess(sort_key(Name(t)), sort_key(Name(u)))
         IN  <<first>> \o Sorted(tails \ {first})

\* lines 57-60
admission_event_paths(entries) == Sorted({e.tail : e \in {x \in entries : x.is_file}})

(***************************************************************************)
(* compute_metrics                                                         *)
(***************************************************************************)
\* an admission event: the values under kind, code and reason
AdmissionEvent(kind, code, reason) == [kind |-> kind, code |-> code, reason |-> reason]

\* a status sample: severity is pressure["severity"] and status is circuit["status"]
\* when pressure and circuit are mappings
StatusSample(activeRuns, activeSlots, maxGap, pressure, severity, circuit, status) ==
    [activeRuns |-> activeRuns, activeSlots |-> activeSlots, maxGap |-> maxGap,
     pressure |-> pressure, severity |-> severity, circuit |-> circuit, status |-> status]

\* lines 106-120 and, once the event loop is over, 149-156
InitMetrics ==
    [event_counts |-> EmptyCounter, run_denials |-> EmptyCounter,
     slot_denials |-> EmptyCounter, tool_gate_denials |-> EmptyCounter,
     breaker_trips |-> EmptyCounter,
     total_run_allowed |-> 0, total_run_denied |-> 0,
     total_slot_allowed |-> 0, total_slot_denied |-> 0,
     active_runs_from_events |-> 0, active_slots_from_events |-> 0,
     max_active_runs_from_events |-> 0, max_active_slots_from_events |-> 0,
     max_active_runs |-> 0, max_active_slots |-> 0, max_gap |-> 0,
     critical_status_samples |-> 0, warn_status_samples |-> 0, ok_status_samples |-> 0,
     circuit_open_samples |-> 0, circuit_closed_samples |-> 0]

EventKind(row) == PyStr(DictGet(row.kind, Text("unknown")))

\* a release that is not clamped
ReleaseActive_unclamped(active) == active - 1

\* run_end and slot_release: max(0, active - 1)
ReleaseActive(active) == Max2(0, active - 1)

\* the event loop counting a run denial only while a run is active
EventStep_denied_while_active(m, row) ==
    LET kind == EventKind(row)
        code == PyStr(DictGet(row.code, Text("UNKNOWN")))
        reason == PyStr(DictGet(row.reason, Text("unknown")))
        c == [m EXCEPT !.event_counts = CounterInc(@, kind)]
    IN  CASE kind = "run_allowed" ->
               [c EXCEPT !.total_run_allowed = @ + 1,
                         !.active_runs_from_events = @ + 1,
                         !.max_active_runs_from_events =
                             Max2(@, m.active_runs_from_events + 1)]
          [] kind = "run_end" ->
               [c EXCEPT !.active_runs_from_events = ReleaseActive(@)]
          [] kind = "run_denied" ->
               IF m.active_runs_from_events = 0 THEN c
               ELSE [c EXCEPT !.total_run_denied = @ + 1,
                              !.run_denials = CounterInc(@, code)]
          [] kind = "slot_allowed" ->
               [c EXCEPT !.total_slot_allowed = @ + 1,
                         !.active_slots_from_events = @ + 1,
                         !.max_active_slots_from_events =
                             Max2(@, m.active_slots_from_events + 1)]
          [] kind = "slot_release" ->
               [c EXCEPT !.active_slots_from_events = ReleaseActive(@)]
          [] kind = "slot_denied" ->
               [c EXCEPT !.total_slot_denied = @ + 1,
                         !.slot_denials = CounterInc(@, code)]
          [] kind = "tool_gate_denied" ->
               [c EXCEPT !.tool_gate_denials = CounterInc(@, code)]
          [] kind = "circuit_open" ->
               [c EXCEPT !.breaker_trips = CounterInc(@, reason)]
          [] OTHER -> c

\* the body of the event loop, lines 123-147
EventStep(m, row) ==
    LET kind == EventKind(row)
        code == PyStr(DictGet(row.code, Text("UNKNOWN")))
        reason == PyStr(DictGet(row.reason, Text("unknown")))
        c == [m EXCEPT !.event_counts = CounterInc(@, kind)]
    IN  CASE kind = "run_allowed" ->
               [c EXCEPT !.total_run_allowed = @ + 1,
                         !.active_runs_from_events = @ + 1,
                         !.max_active_runs_from_events =
                             Max2(@, m.active_runs_from_events + 1)]
          [] kind = "run_end" ->
               [c EXCEPT !.active_runs_from_events = ReleaseActive(@)]
          [] kind = "run_denied" ->
               [c EXCEPT !.total_run_denied = @ + 1,
                         !.run_denials = CounterInc(@, code)]
          [] kind = "slot_allowed" ->
               [c EXCEPT !.total_slot_allowed = @ + 1,
                         !.active_slots_from_events = @ + 1,
                         !.max_active_slots_from_events =
                             Max2(@, m.active_slots_from_events + 1)]
          [] kind = "slot_release" ->
               [c EXCEPT !.active_slots_from_events = ReleaseActive(@)]
          [] kind = "slot_denied" ->
               [c EXCEPT !.total_slot_denied = @ + 1,
                         !.slot_denials = CounterInc(@, code)]
          [] kind = "tool_gate_denied" ->
               [c EXCEPT !.tool_gate_denials = CounterInc(@, code)]
          [] kind = "circuit_open" ->
               [c EXCEPT !.breaker_trips = CounterInc(@, reason)]
          [] OTHER -> c

\* the status loop starting from 0 instead of the event-derived maxima
StartStatus_from_zero(m) == m

\* lines 149-150: the status loop starts from the event-derived maxima
StartStatus(m) ==
    [m EXCEPT !.max_active_runs = m.max_active_runs_from_events,
              !.max_active_slots = m.max_active_slots_from_events]

\* the exception the body of the status loop raises on row, "" when none
StatusFault(row) ==
    FirstFault(<<PyIntFault(DictGet(row.activeRuns, Num(0))),
                 PyIntFault(DictGet(row.activeSlots, Num(0))),
                 PyIntFault(DictGet(row.maxGap, Num(0))),
                 SubGetFault(row.pressure),
                 SubGetFault(row.circuit)>>)

\* the status loop with buckets for the severities and circuit states it names only
StatusStep_named_only(m, row) ==
    LET severity == PyStr(SubGet(row.pressure, row.severity, Text("ok")))
        status == PyStr(SubGet(row.circuit, row.status, Text("closed")))
        a == [m EXCEPT
                !.max_active_runs = Max2(@, PyInt(DictGet(row.activeRuns, Num(0)))),
                !.max_active_slots = Max2(@, PyInt(DictGet(row.activeSlots, Num(0)))),
                !.max_gap = Max2(@, PyInt(DictGet(row.maxGap, Num(0))))]
        b == CASE severity = "critical" -> [a EXCEPT !.critical_status_samples = @ + 1]
               [] severity = "warn" -> [a EXCEPT !.warn_status_samples = @ + 1]
               [] severity = "ok" -> [a EXCEPT !.ok_status_samples = @ + 1]
               [] OTHER -> a
    IN  CASE status = "open" -> [b EXCEPT !.circuit_open_samples = @ + 1]
          [] status = "closed" -> [b EXCEPT !.circuit_closed_samples = @ + 1]
          [] OTHER -> b

\* the body of the status loop, lines 159-176
StatusStep(m, row) ==
    LET severity == PyStr(SubGet(row.pressure, row.severity, Text("ok")))
        status == PyStr(SubGet(row.circuit, row.status, Text("closed")))
        a == [m EXCEPT
                !.max_active_runs = Max2(@, PyInt(DictGet(row.activeRuns, Num(0)))),
                !.max_active_slots = Max2(@, PyInt(DictGet(row.activeSlots, Num(0)))),
                !.max_gap = Max2(@, PyInt(DictGet(row.maxGap, Num(0))))]
        b == CASE severity = "critical" -> [a EXCEPT !.critical_status_samples = @ + 1]
               [] severity = "warn" -> [a EXCEPT !.warn_status_samples = @ + 1]
               [] OTHER -> [a EXCEPT !.ok_status_samples = @ + 1]
    IN  IF status = "open"
        THEN [b EXCEPT !.circuit_open_samples = @ + 1]
        ELSE [b EXCEPT !.circuit_closed_samples = @ + 1]

(***************************************************************************)
(* compute_workload_metrics                                                *)
(***************************************************************************)
\* a workload event: kind and detail, and the values under the keys of detail
\* when detail is a mapping
WorkloadEvent(kind, detail, code, runKind, attempts, requested, granted, denied, ok, rejection) ==
    [kind |-> kind, detail |-> detail, code |-> code, runKind |-> runKind,
     slotAttempts |-> attempts, requestedParallelism |-> requested,
     grantedSlots |-> granted, deniedSlots |-> denied,
     ok |-> ok, rejection |-> rejection]

\* lines 200-210
InitWorkload ==
    [event_counts |-> EmptyCounter, run_denials |-> EmptyCounter,
     run_completed |-> EmptyCounter, depth_probe_rejections |-> EmptyCounter,
     gap_probe_rejections |-> EmptyCounter,
     total_run_completed |-> 0, total_run_denied |-> 0, total_depth_probe |-> 0,
     burst_slot_granted |-> 0, burst_slot_denied |-> 0]

\* detail.get(key, default) and detail.get(key), detail being row.get("detail") or {}
DetailGet(row, inner, default) == SubGet(row.detail, inner, default)

DetailGetNone(row, inner) == SubGet(row.detail, inner, Null)

\* int(v or 0)
OrZeroFault(v) == IF Truthy(v) THEN PyIntFault(v) ELSE ""

OrZero(v) == IF Truthy(v) THEN PyInt(v) ELSE 0

\* a run that attempted as many slots as it requested taken for a burst probe
IsBurst_or_equal(slot_attempts, requested_parallelism) ==
    slot_attempts >= requested_parallelism

\* line 225: the run is a burst probe
IsBurst(slot_attempts, requested_parallelism) == slot_attempts > requested_parallelism

\* the exception the body of the workload loop raises on row, "" when none
WorkloadFault(row) ==
    LET kind == EventKind(row)
        attempts == DetailGetNone(row, row.slotAttempts)
        requested == DetailGetNone(row, row.requestedParallelism)
    IN  CASE kind \in {"run_denied", "depth_probe", "gap_probe"} ->
               SubGetFault(row.detail)
          [] kind = "run_completed" ->
               FirstFault(<<SubGetFault(row.detail),
                            OrZeroFault(attempts),
                            OrZeroFault(requested),
                            IF OrZeroFault(attempts) = "" /\ OrZeroFault(requested) = ""
                               /\ IsBurst(OrZero(attempts), OrZero(requested))
                            THEN FirstFault(
                                   <<OrZeroFault(DetailGetNone(row, row.grantedSlots)),
                                     OrZeroFault(DetailGetNone(row, row.deniedSlots))>>)
                            ELSE "">>)
          [] OTHER -> ""

\* a probe tallied under its rejection code whatever detail.ok holds
ProbeOutcome_rejection(row) == PyStr(DetailGet(row, row.rejection, Text("UNKNOWN")))

\* lines 230-233 and 235-238: the label a probe is tallied under
ProbeOutcome(row) ==
    IF Truthy(DetailGetNone(row, row.ok))
    THEN "ok"
    ELSE PyStr(DetailGet(row, row.rejection, Text("UNKNOWN")))

\* the body of the workload loop, lines 213-238
WorkloadStep(w, row) ==
    LET kind == EventKind(row)
        c == [w EXCEPT !.event_counts = CounterInc(@, kind)]
        slot_attempts == OrZero(DetailGetNone(row, row.slotAttempts))
        requested_parallelism == OrZero(DetailGetNone(row, row.requestedParallelism))
    IN  CASE kind = "run_denied" ->
               [c EXCEPT !.total_run_denied = @ + 1,
                         !.run_denials =
                             CounterInc(@, PyStr(DetailGet(row, row.code, Text("UNKNOWN"))))]
          [] kind = "run_completed" ->
               LET r == [c EXCEPT !.total_run_completed = @ + 1,
                                  !.run_completed =
                                      CounterInc(@, PyStr(DetailGet(row, row.runKind,
                                                                    Text("unknown"))))]
               IN  IF IsBurst(slot_attempts, requested_parallelism)
                   THEN [r EXCEPT !.burst_slot_granted =
                                      @ + OrZero(DetailGetNone(row, row.grantedSlots)),
                                  !.burst_slot_denied =
                                      @ + OrZero(DetailGetNone(row, row.deniedSlots))]
                   ELSE r
          [] kind = "depth_probe" ->
               [c EXCEPT !.total_depth_probe = @ + 1,
                         !.depth_probe_rejections = CounterInc(@, ProbeOutcome(row))]
          [] kind = "gap_probe" ->
               [c EXCEPT !.gap_probe_rejections = CounterInc(@, ProbeOutcome(row))]
          [] OTHER -> c

(***************************************************************************)
(* ratio and suggestions.  A float is the fraction num / den it rounds: the *)
(* counts of the model are far too small for two different fractions to    *)
(* round to the same float, so comparing fractions is comparing floats.    *)
(***************************************************************************)
Float(num, den) == [fault |-> "", num |-> num, den |-> den]

ZeroDivisionError == [fault |-> "ZeroDivisionError", num |-> 0, den |-> 1]

\* numerator / denominator
PyDiv(numerator, denominator) ==
    CASE denominator = 0 -> ZeroDivisionError
      [] denominator < 0 -> Float(-numerator, -denominator)
      [] OTHER -> Float(numerator, denominator)

\* the division without its guard
ratio_unguarded(numerator, denominator) == PyDiv(numerator, denominator)

\* lines 254-257
ratio(numerator, denominator) ==
    IF denominator <= 0 THEN Float(0, 1) ELSE PyDiv(numerator, denominator)

FloatLT(a, b) == a.num * b.den < b.num * a.den

FloatGT(a, b) == FloatLT(b, a)

\* lines 263-274
SuggestionRatios(m, w) ==
    [run_denial_ratio |->
         ratio(m.total_run_denied, m.total_run_allowed + m.total_run_denied),
     slot_denial_ratio |->
         ratio(m.total_slot_denied, m.total_slot_allowed + m.total_slot_denied),
     operational_denial_ratio |->
         ratio(w.total_run_denied, w.total_run_completed + w.total_run_denied),
     critical_ratio |->
         ratio(m.critical_status_samples,
               m.critical_status_samples + m.warn_status_samples + m.ok_status_samples)]

\* line 283
BurstRatio(w) ==
    ratio(w.burst_slot_denied, w.burst_slot_denied + w.burst_slot_granted)

\* the messages of suggestions, by the parameter or guard each is about
MsgRaiseRuns == "RUN_CAP_REACHED denials observed. Consider raising PI_ORCH_ADM_MAX_RUNS"
MsgKeepRuns == "No RUN_CAP_REACHED denials observed; no evidence to raise PI_ORCH_ADM_MAX_RUNS"
MsgBurstSlots == "SLOT_CAP_REACHED denials were concentrated in burst scenarios; keep PI_ORCH_ADM_MAX_SLOTS"
MsgTuneSlots == "High slot denial ratio outside critical pressure. Consider tuning PI_ORCH_ADM_MAX_SLOTS"
MsgGapBreaker == "call_result_gap breaker dominated trips; tighten recovery latency"
MsgDepthGuard == "Depth guard behaved as expected"
MsgInflated == "Aggregate run denial ratio is inflated by synthetic probes/cooldowns"
MsgHostPressure == "Critical pressure samples observed without host_pressure breaker trips"
MsgNoChange == "No urgent threshold change indicated from this run"

\* the run-cap rule reading the slot-denial histogram
RunCapRule_slots(m) == CounterGet(m.slot_denials, "RUN_CAP_REACHED") > 0

\* the run-cap rule firing on a run denial of any code
RunCapRule_any_code(m) == m.total_run_denied > 0

\* line 276
RunCapRule(m) == CounterGet(m.run_denials, "RUN_CAP_REACHED") > 0

\* the slot-cap messages without the SLOT_CAP_REACHED guard of line 281
SlotCapRule_any_code(m, w, r) ==
    IF w.burst_slot_denied > 0 /\ w.burst_slot_granted > 0
    THEN <<MsgBurstSlots>>
    ELSE IF FloatGT(r.slot_denial_ratio, Float(30, 100))
            /\ FloatLT(r.critical_ratio, Float(1, 10))
         THEN <<MsgTuneSlots>>
         ELSE <<>>

\* lines 281-288: the slot-cap messages
SlotCapRule(m, w, r) ==
    IF CounterGet(m.slot_denials, "SLOT_CAP_REACHED") > 0
    THEN IF w.burst_slot_denied > 0 /\ w.burst_slot_granted > 0
         THEN <<MsgBurstSlots>>
         ELSE IF FloatGT(r.slot_denial_ratio, Float(30, 100))
                 /\ FloatLT(r.critical_ratio, Float(1, 10))
              THEN <<MsgTuneSlots>>
              ELSE <<>>
    ELSE <<>>

\* the gap rule counting the trips of every reason
GapRule_any_reason(m) == CounterTotal(m.breaker_trips) >= 3

\* lines 290-291
GapRule(m) == CounterGet(m.breaker_trips, "call_result_gap") >= 3

\* the depth rule asking only for one DEPTH_EXCEEDED rejection
DepthRule_any(w) ==
    /\ w.total_depth_probe > 0
    /\ CounterGet(w.depth_probe_rejections, "DEPTH_EXCEEDED") > 0

\* line 296
DepthRule(w) ==
    /\ w.total_depth_probe > 0
    /\ CounterGet(w.depth_probe_rejections, "DEPTH_EXCEEDED") = w.total_depth_probe

\* the inflated-ratio rule comparing the operational ratio with the 20% threshold
InflatedRule_threshold(r) ==
    /\ FloatGT(r.run_denial_ratio, Float(20, 100))
    /\ FloatLT(r.operational_denial_ratio, Float(20, 100))

\* line 299
InflatedRule(r) ==
    /\ FloatGT(r.run_denial_ratio, Float(20, 100))
    /\ FloatLT(r.operational_denial_ratio, r.run_denial_ratio)

\* the host-pressure rule firing on either condition
HostPressureRule_either(m) ==
    \/ CounterGet(m.breaker_trips, "host_pressure") = 0
    \/ m.critical_status_samples > 0

\* line 304
HostPressureRule(m) ==
    /\ CounterGet(m.breaker_trips, "host_pressure") = 0
    /\ m.critical_status_samples > 0

\* the exception suggestions raises, "" when none
SuggestionsFault(m, w) ==
    LET r == SuggestionRatios(m, w)
    IN  FirstFault(<<r.run_denial_ratio.fault, r.slot_denial_ratio.fault,
                     r.operational_denial_ratio.fault, r.critical_ratio.fault,
                     IF CounterGet(m.slot_denials, "SLOT_CAP_REACHED") > 0
                        /\ w.burst_slot_denied > 0 /\ w.burst_slot_granted > 0
                     THEN BurstRatio(w).fault ELSE "">>)

\* suggestions with a run-cap rule that is silent when no RUN_CAP_REACHED denial
\* was counted
suggestions_silent_else(m, w) ==
    LET r == SuggestionRatios(m, w)
        rules == <<IF RunCapRule(m) THEN <<MsgRaiseRuns>> ELSE <<>>,
                   SlotCapRule(m, w, r),
                   IF GapRule(m) THEN <<MsgGapBreaker>> ELSE <<>>,
                   IF DepthRule(w) THEN <<MsgDepthGuard>> ELSE <<>>,
                   IF InflatedRule(r) THEN <<MsgInflated>> ELSE <<>>,
                   IF HostPressureRule(m) THEN <<MsgHostPressure>> ELSE <<>>>>
        list == rules[1] \o rules[2] \o rules[3] \o rules[4] \o rules[5] \o rules[6]
    IN  IF list = <<>> THEN <<MsgNoChange>> ELSE list

\* lines 260-312
suggestions(m, w) ==
    LET r == SuggestionRatios(m, w)
        rules == <<IF RunCapRule(m) THEN <<MsgRaiseRuns>> ELSE <<MsgKeepRuns>>,
                   SlotCapRule(m, w, r),
                   IF GapRule(m) THEN <<MsgGapBreaker>> ELSE <<>>,
                   IF DepthRule(w) THEN <<MsgDepthGuard>> ELSE <<>>,
                   IF InflatedRule(r) THEN <<MsgInflated>> ELSE <<>>,
                   IF HostPressureRule(m) THEN <<MsgHostPressure>> ELSE <<>>>>
        list == rules[1] \o rules[2] \o rules[3] \o rules[4] \o rules[5] \o rules[6]
    IN  IF list = <<>> THEN <<MsgNoChange>> ELSE list

(***************************************************************************)
(* generate_report: the ranked lists                                       *)
(***************************************************************************)
\* the counter without its i-th entry
Without(c, i) == SubSeq(c, 1, i - 1) \o SubSeq(c, i + 1, Len(c))

\* a ranking that puts the last of the labels with equal counts first
RECURSIVE most_common_unstable(_)
most_common_unstable(c) ==
    IF c = <<>> THEN <<>>
    ELSE LET top == CHOOSE i \in 1..Len(c) :
                        \A j \in 1..Len(c) :
                            c[j].n <= c[i].n /\ (j > i => c[j].n < c[i].n)
         IN  <<c[top]>> \o most_common_unstable(Without(c, top))

\* Counter.most_common(): sorted(items, key=count, reverse=True), a stable sort
\* of the entries in insertion order
RECURSIVE most_common(_)
most_common(c) ==
    IF c = <<>> THEN <<>>
    ELSE LET top == CHOOSE i \in 1..Len(c) :
                        \A j \in 1..Len(c) :
                            c[j].n <= c[i].n /\ (j < i => c[j].n < c[i].n)
         IN  <<c[top]>> \o most_common(Without(c, top))

\* the placeholder of an empty list
NonePlaceholder == <<[k |-> "(none)", n |-> 0]>>

\* counter.most_common() or [("(none)", 0)]
RankedOrNone(c) == IF most_common(c) = <<>> THEN NonePlaceholder ELSE most_common(c)

Section(title, lines) == [title |-> title, lines |-> lines]

\* lines 409-436 and 454-457: the ranked lists under their headings
RankedLists(m, w) ==
    <<Section("Circuit trips by reason", RankedOrNone(m.breaker_trips)),
      Section("Run denials by code", RankedOrNone(m.run_denials)),
      Section("Slot denials by code", RankedOrNone(m.slot_denials)),
      Section("Workload denials by code", RankedOrNone(w.run_denials)),
      Section("Gap-probe outcomes", RankedOrNone(w.gap_probe_rejections)),
      Section("Tool-gate denials by code", RankedOrNone(m.tool_gate_denials)),
      Section("Raw Event Counts", most_common(m.event_counts))>>

(***************************************************************************)
(* The rows the reducers are given.                                        *)
(***************************************************************************)
Kind(k) == AdmissionEvent(Text(k), Absent, Absent)

RunAllowed == Kind("run_allowed")
RunEnd == Kind("run_end")
RunDeniedCap == AdmissionEvent(Text("run_denied"), Text("RUN_CAP_REACHED"), Absent)

EventRows ==
    {RunAllowed, RunEnd, Kind("slot_allowed"), Kind("slot_release"),
     RunDeniedCap, Kind("run_denied"),
     AdmissionEvent(Text("slot_denied"), Text("SLOT_CAP_REACHED"), Absent),
     Kind("slot_denied"), Kind("tool_gate_denied"),
     AdmissionEvent(Text("circuit_open"), Absent, Text("call_result_gap")),
     AdmissionEvent(Text("circuit_open"), Absent, Text("host_pressure"))}

\* the events of the scenario: run_allowed, run_end, run_denied{RUN_CAP_REACHED}
ScenarioRows == {RunAllowed, RunEnd, RunDeniedCap}

Sample(runs, slots, gap, severity, status) ==
    StatusSample(Num(runs), Num(slots), Num(gap), Map, Text(severity), Map, Text(status))

EmptySample == StatusSample(Absent, Absent, Absent, Absent, Absent, Absent, Absent)

\* samples the fold accepts
GoodStatusRows ==
    {EmptySample,
     Sample(1, 2, 0, "ok", "closed"),
     Sample(3, 0, 5, "critical", "open"),
     Sample(0, 1, 2, "warn", "closed"),
     StatusSample(Text("2"), Flag(TRUE), Absent, Map, Text("elevated"), Map, Text("half_open"))}

\* samples with a malformed optional field
BadStatusRows ==
    {[EmptySample EXCEPT !.activeRuns = Null]}

StatusRows == GoodStatusRows \cup BadStatusRows

Detail(kind, code, runKind, attempts, requested, granted, denied, ok, rejection) ==
    WorkloadEvent(Text(kind), Map, code, runKind, attempts, requested, granted, denied, ok, rejection)

RunCompleted(runKind, attempts, requested, granted, denied) ==
    Detail("run_completed", Absent, Text(runKind), Num(attempts), Num(requested),
           Num(granted), Num(denied), Absent, Absent)

Probe(kind, ok, rejection) ==
    Detail(kind, Absent, Absent, Absent, Absent, Absent, Absent, ok, rejection)

NoDetail(kind) ==
    WorkloadEvent(Text(kind), Absent, Absent, Absent, Absent, Absent, Absent, Absent, Absent, Absent)

DepthExceeded == Probe("depth_probe", Flag(FALSE), Text("DEPTH_EXCEEDED"))

\* workload events the fold accepts
GoodWorkloadRows ==
    {Detail("run_denied", Text("RUN_CAP_REACHED"), Absent, Absent, Absent, Absent, Absent,
            Absent, Absent),
     RunCompleted("team", 3, 2, 2, 1),
     RunCompleted("single", 2, 2, 1, 1),
     Detail("run_completed", Absent, Absent, Num(1), Absent, Absent, Num(2), Absent, Absent),
     DepthExceeded,
     Probe("depth_probe", Flag(TRUE), Absent),
     NoDetail("depth_probe"),
     Probe("gap_probe", Flag(FALSE), Text("GAP_EXCEEDED"))}

\* workload events with a malformed optional field
BadWorkloadRows ==
    {[NoDetail("run_completed") EXCEPT !.detail = Text("oops")]}

WorkloadRows == GoodWorkloadRows \cup BadWorkloadRows

(***************************************************************************)
(* The state before main() has read anything.                              *)
(***************************************************************************)
Unloaded ==
    /\ dir = {}
    /\ content = <<>>
    /\ status_file = "unknown"
    /\ status_lines = <<>>
    /\ event_files = <<>>
    /\ file_idx = 0
    /\ rows = <<>>
    /\ loaded = <<>>
    /\ loaded_status = <<>>
    /\ cursor = 1

Unfolded ==
    /\ events = EmptyBag
    /\ status_rows = EmptyBag
    /\ workload_rows = EmptyBag
    /\ metrics = InitMetrics
    /\ workload = InitWorkload
    /\ ratios = <<>>
    /\ out = <<>>
    /\ report = <<>>
    /\ err = ""

NoRatioCall == ratio_args = <<0, 0>> /\ ratio_result = Float(0, 1)

NoSecondCall == loaded_workload = <<>> /\ previous = <<>>

\* the number of rows folded so far
Folded ==
    BagCardinality(events) + BagCardinality(status_rows) + BagCardinality(workload_rows)

\* the run ends with an exception
Raise(fault) == pc' = "error" /\ err' = fault

(***************************************************************************)
(* main(), lines 473-475, on lists given row by row                        *)
(***************************************************************************)
\* compute_metrics, one pass of the event loop (lines 122-147) on row
EventLoop(row) ==
    /\ pc = "events"
    /\ metrics' = EventStep(metrics, row)
    /\ events' = events (+) SetToBag({row})
    /\ UNCHANGED <<pc, err, status_rows, workload_rows, workload, sugVars, ratioVars>>

\* compute_metrics, the event loop is over: lines 149-156
EndEvents ==
    /\ pc = "events"
    /\ pc' = "status"
    /\ metrics' = StartStatus(metrics)
    /\ UNCHANGED <<err, events, status_rows, workload_rows, workload, sugVars, ratioVars>>

\* compute_metrics, one pass of the status loop (lines 158-176) on row
StatusLoop(row) ==
    /\ pc = "status"
    /\ status_rows' = status_rows (+) SetToBag({row})
    /\ IF StatusFault(row) # ""
       THEN Raise(StatusFault(row)) /\ UNCHANGED metrics
       ELSE metrics' = StatusStep(metrics, row) /\ UNCHANGED <<pc, err>>
    /\ UNCHANGED <<events, workload_rows, workload, sugVars, ratioVars>>

\* compute_metrics returns (line 178); compute_workload_metrics starts (lines 200-210)
ReturnMetrics ==
    /\ pc = "status"
    /\ pc' = "workload"
    /\ workload' = InitWorkload
    /\ UNCHANGED <<err, events, status_rows, workload_rows, metrics, sugVars, ratioVars>>

\* compute_workload_metrics, one pass of its loop (lines 212-238) on row
WorkloadLoop(row) ==
    /\ pc = "workload"
    /\ workload_rows' = workload_rows (+) SetToBag({row})
    /\ IF WorkloadFault(row) # ""
       THEN Raise(WorkloadFault(row)) /\ UNCHANGED workload
       ELSE workload' = WorkloadStep(workload, row) /\ UNCHANGED <<pc, err>>
    /\ UNCHANGED <<events, status_rows, metrics, sugVars, ratioVars>>

\* compute_workload_metrics returns (line 240); generate_report ranks the
\* histograms (lines 406-436, 454-457) and calls suggestions(metrics, workload)
\* (line 450)
Suggest ==
    /\ pc = "workload"
    /\ ratios' = SuggestionRatios(metrics, workload)
    /\ IF SuggestionsFault(metrics, workload) # ""
       THEN Raise(SuggestionsFault(metrics, workload)) /\ UNCHANGED <<out, report>>
       ELSE /\ pc' = "done"
            /\ out' = suggestions(metrics, workload)
            /\ report' = RankedLists(metrics, workload)
            /\ UNCHANGED err
    /\ UNCHANGED <<foldVars, ratioVars>>

FoldEvent == Folded < MaxRows /\ \E row \in EventRows : EventLoop(row)

FoldStatus == Folded < MaxRows /\ \E row \in StatusRows : StatusLoop(row)

FoldWorkload == Folded < MaxRows /\ \E row \in WorkloadRows : WorkloadLoop(row)

Init == pc = "events" /\ Unloaded /\ Unfolded /\ NoRatioCall /\ NoSecondCall

Next ==
    \/ FoldEvent /\ UNCHANGED <<loadVars, twiceVars>>
    \/ EndEvents /\ UNCHANGED <<loadVars, twiceVars>>
    \/ FoldStatus /\ UNCHANGED <<loadVars, twiceVars>>
    \/ ReturnMetrics /\ UNCHANGED <<loadVars, twiceVars>>
    \/ FoldWorkload /\ UNCHANGED <<loadVars, twiceVars>>
    \/ Suggest /\ UNCHANGED <<loadVars, twiceVars>>

Spec == Init /\ [][Next]_vars

(***************************************************************************)
(* The scenario: an admission log of run_allowed, run_end and              *)
(* run_denied{RUN_CAP_REACHED} events in any order, no status samples.     *)
(***************************************************************************)
ScenarioEvent ==
    BagCardinality(events) < MaxScenario /\ \E row \in ScenarioRows : EventLoop(row)

ScenarioWorkload ==
    /\ BagCardinality(workload_rows) < MaxScenarioWorkload
    /\ \E row \in GoodWorkloadRows : WorkloadLoop(row)

NextScenario ==
    \/ ScenarioEvent /\ UNCHANGED <<loadVars, twiceVars>>
    \/ EndEvents /\ UNCHANGED <<loadVars, twiceVars>>
    \/ ReturnMetrics /\ UNCHANGED <<loadVars, twiceVars>>
    \/ ScenarioWorkload /\ UNCHANGED <<loadVars, twiceVars>>
    \/ Suggest /\ UNCHANGED <<loadVars, twiceVars>>

SpecScenario == Init /\ [][NextScenario]_vars

(***************************************************************************)
(* ratio called on its own, and main() on empty inputs.                    *)
(***************************************************************************)
InitRatio ==
    \/ /\ pc = "ratio"
       /\ Unloaded /\ Unfolded
       /\ ratio_args \in (-MaxNum..MaxNum) \X (-MaxNum..MaxNum)
       /\ ratio_result = Float(0, 1)
       /\ NoSecondCall
    \/ Init

\* ratio(numerator, denominator), lines 254-257
CallRatio ==
    /\ pc = "ratio"
    /\ ratio_result' = ratio(ratio_args[1], ratio_args[2])
    /\ IF ratio(ratio_args[1], ratio_args[2]).fault # ""
       THEN Raise(ratio(ratio_args[1], ratio_args[2]).fault)
       ELSE pc' = "ratio_done" /\ UNCHANGED err
    /\ UNCHANGED <<ratio_args, loadVars, foldVars, sugVars>>

NextRatio ==
    \/ CallRatio /\ UNCHANGED twiceVars
    \/ EndEvents /\ UNCHANGED <<loadVars, twiceVars>>
    \/ ReturnMetrics /\ UNCHANGED <<loadVars, twiceVars>>
    \/ Suggest /\ UNCHANGED <<loadVars, twiceVars>>

SpecRatio == InitRatio /\ [][NextRatio]_vars

(***************************************************************************)
(* main(), lines 467-473, on the files of a directory: the admission logs  *)
(* are listed, ordered and loaded, status.ndjson is loaded, and            *)
(* compute_metrics folds what was loaded.                                  *)
(***************************************************************************)
File(tail) == [tail |-> tail, is_file |-> TRUE]

TailBase == <<>>
Tail2 == <<".", "2">>
Tail10 == <<".", "1", "0">>
TailBak == <<".", "b", "a", "k">>
TailBig == <<".", "1", "0", "0", "0", "0", "0", "0", "0">>

\* what the glob can match: rotated logs, other files and a directory
Entries ==
    {File(TailBase), File(Tail2), File(Tail10), File(TailBak),
     File(TailBig), [tail |-> <<".", "d">>, is_file |-> FALSE]}

NoEvent == AdmissionEvent(Absent, Absent, Absent)

\* the lines of an admission log
EventLines ==
    {Line("object", RunAllowed), Line("object", RunEnd), Line("garbage", NoEvent)}

OkSample == Sample(3, 0, 2, "ok", "closed")

\* the lines of status.ndjson
StatusLines ==
    {Line("blank", EmptySample), Line("garbage", EmptySample), Line("value", EmptySample),
     Line("object", OkSample), Line("object", EmptySample)}

\* the number of lines read so far
RECURSIVE LinesRead(_)
LinesRead(tails) ==
    IF tails = {} THEN Len(status_lines)
    ELSE LET t == CHOOSE t \in tails : TRUE
         IN  Len(content[t]) + LinesRead(tails \ {t})

\* either the admission logs or status.ndjson have lines to read
InitLoad ==
    /\ pc = "paths"
    /\ dir \in {d \in SUBSET Entries : Cardinality(d) <= MaxFiles}
    /\ content = [t \in {e.tail : e \in dir} |-> <<>>]
    /\ status_file \in (IF dir = {} THEN {"missing", "present"} ELSE {"missing"})
    /\ status_lines = <<>>
    /\ event_files = <<>>
    /\ file_idx = 0
    /\ rows = <<>>
    /\ loaded = <<>>
    /\ loaded_status = <<>>
    /\ cursor = 1
    /\ Unfolded
    /\ NoRatioCall
    /\ NoSecondCall

\* event_files = admission_event_paths(artifact_dir), line 467; load_ndjson_many
\* starts on the first path
ListPaths ==
    /\ pc = "paths"
    /\ event_files' = admission_event_paths(dir)
    /\ pc' = "load_events"
    /\ file_idx' = 1
    /\ rows' = <<>>
    /\ UNCHANGED <<err, dir, content, status_file, status_lines, loaded, loaded_status,
                   cursor, foldVars, sugVars, ratioVars>>

\* load_ndjson(path) reads a line of the current admission log
ReadEventLine ==
    /\ pc = "load_events"
    /\ file_idx <= Len(event_files)
    /\ LinesRead(DOMAIN content) < MaxLines
    /\ \E line \in EventLines :
           /\ content' = [content EXCEPT ![event_files[file_idx]] = Append(@, line)]
           /\ rows' = LoadStep(rows, line)
    /\ UNCHANGED <<pc, err, dir, status_file, status_lines, event_files, file_idx, loaded,
                   loaded_status, cursor, foldVars, sugVars, ratioVars>>

\* load_ndjson(path) returns and load_ndjson_many extends its rows (line 66)
EndOfEventFile ==
    /\ pc = "load_events"
    /\ file_idx <= Len(event_files)
    /\ loaded' = loaded \o rows
    /\ rows' = <<>>
    /\ file_idx' = file_idx + 1
    /\ UNCHANGED <<pc, err, dir, content, status_file, status_lines, event_files,
                   loaded_status, cursor, foldVars, sugVars, ratioVars>>

\* load_ndjson_many returns (line 67); load_ndjson(status.ndjson) is called (line 469)
\* and returns [] when the file does not exist (lines 27-28)
OpenStatus ==
    /\ pc = "load_events"
    /\ file_idx > Len(event_files)
    /\ rows' = <<>>
    /\ IF status_file = "missing"
       THEN pc' = "events" /\ loaded_status' = <<>>
       ELSE pc' = "load_status" /\ UNCHANGED loaded_status
    /\ UNCHANGED <<err, dir, content, status_file, status_lines, event_files, file_idx,
                   loaded, cursor, foldVars, sugVars, ratioVars>>

\* load_ndjson(status.ndjson) reads a line
ReadStatusLine ==
    /\ pc = "load_status"
    /\ LinesRead(DOMAIN content) < MaxLines
    /\ \E line \in StatusLines :
           /\ status_lines' = Append(status_lines, line)
           /\ rows' = LoadStep(rows, line)
    /\ UNCHANGED <<pc, err, dir, content, status_file, event_files, file_idx, loaded,
                   loaded_status, cursor, foldVars, sugVars, ratioVars>>

\* load_ndjson(status.ndjson) returns its rows (line 42); compute_metrics starts
EndOfStatusFile ==
    /\ pc = "load_status"
    /\ loaded_status' = rows
    /\ rows' = <<>>
    /\ pc' = "events"
    /\ UNCHANGED <<err, dir, content, status_file, status_lines, event_files, file_idx,
                   loaded, cursor, foldVars, sugVars, ratioVars>>

\* compute_metrics folds the next loaded event
LoadedEvent ==
    /\ cursor <= Len(loaded)
    /\ EventLoop(loaded[cursor])
    /\ cursor' = cursor + 1
    /\ UNCHANGED <<dir, content, status_file, status_lines, event_files, file_idx,
                   rows, loaded, loaded_status>>

\* the loaded events are folded: the status loop starts
EndLoadedEvents ==
    /\ cursor > Len(loaded)
    /\ EndEvents
    /\ cursor' = 1
    /\ UNCHANGED <<dir, content, status_file, status_lines, event_files, file_idx,
                   rows, loaded, loaded_status>>

\* compute_metrics folds the next loaded status sample
LoadedStatus ==
    /\ cursor <= Len(loaded_status)
    /\ StatusLoop(loaded_status[cursor])
    /\ cursor' = cursor + 1
    /\ UNCHANGED <<dir, content, status_file, status_lines, event_files, file_idx,
                   rows, loaded, loaded_status>>

\* the loaded samples are folded: compute_metrics returns
ReturnLoaded ==
    /\ cursor > Len(loaded_status)
    /\ ReturnMetrics
    /\ UNCHANGED loadVars

NextLoad ==
    \/ ListPaths /\ UNCHANGED twiceVars
    \/ ReadEventLine /\ UNCHANGED twiceVars
    \/ EndOfEventFile /\ UNCHANGED twiceVars
    \/ OpenStatus /\ UNCHANGED twiceVars
    \/ ReadStatusLine /\ UNCHANGED twiceVars
    \/ EndOfStatusFile /\ UNCHANGED twiceVars
    \/ LoadedEvent /\ UNCHANGED twiceVars
    \/ EndLoadedEvents /\ UNCHANGED twiceVars
    \/ LoadedStatus /\ UNCHANGED twiceVars
    \/ ReturnLoaded /\ UNCHANGED twiceVars

SpecLoad == InitLoad /\ [][NextLoad]_vars

(***************************************************************************)
(* Properties of the reducers and of suggestions under Spec.               *)
(***************************************************************************)
\* the step folds an admission event of the given kind
FoldsKind(kind) ==
    /\ pc = "events"
    /\ events' # events
    /\ \E row \in {r \in EventRows : EventKind(r) = kind} :
           events' = events (+) SetToBag({row})

\* the number of rows of a bag that are in a set
CountIn(bag, S) == BagCardinality([row \in BagToSet(bag) \cap S |-> bag[row]])

InOut(msg) == \E i \in 1..Len(out) : out[i] = msg

\* C1: after every prefix of the event fold the live active-run and active-slot
\* counters are >= 0, and a run_end or slot_release folded while its counter is 0
\* leaves it at 0.
C1_CountersClamped ==
    /\ [](/\ metrics.active_runs_from_events >= 0
          /\ metrics.active_slots_from_events >= 0)
    /\ [][/\ (metrics.active_runs_from_events = 0 /\ FoldsKind("run_end"))
                => metrics'.active_runs_from_events = 0
          /\ (metrics.active_slots_from_events = 0 /\ FoldsKind("slot_release"))
                => metrics'.active_slots_from_events = 0]_vars

\* more run_end than run_allowed and a slot_release without a slot_allowed were folded
C1_Witness ==
    /\ CopiesIn(RunEnd, events) = 2
    /\ CopiesIn(RunAllowed, events) = 1
    /\ CopiesIn(Kind("slot_release"), events) = 1
    /\ CopiesIn(Kind("slot_allowed"), events) = 0
    /\ metrics.active_runs_from_events = 0
    /\ metrics.active_slots_from_events = 0

\* every status sample folded reports pressure.severity "ok" and circuit.status "closed"
AllOkClosed ==
    \A row \in BagToSet(status_rows) :
        /\ row.pressure = Map /\ row.severity = Text("ok")
        /\ row.circuit = Map /\ row.status = Text("closed")

\* C6: the host-pressure warning is in the list exactly when there are critical
\* samples and no host_pressure trips; when all samples report ok and closed the
\* critical, warn and circuit-open counts are 0 and the warning is not emitted.
C6_HostPressureWarning ==
    pc = "done" =>
        /\ InOut(MsgHostPressure) <=>
               (/\ metrics.critical_status_samples > 0
                /\ CounterGet(metrics.breaker_trips, "host_pressure") = 0)
        /\ AllOkClosed =>
               /\ metrics.critical_status_samples = 0
               /\ metrics.warn_status_samples = 0
               /\ metrics.circuit_open_samples = 0
               /\ ~InOut(MsgHostPressure)

\* samples that all report ok and closed, with admission events and no host_pressure trip
C6_Witness ==
    /\ pc = "done"
    /\ AllOkClosed
    /\ BagCardinality(status_rows) >= 2
    /\ BagCardinality(events) >= 1
    /\ CounterGet(metrics.breaker_trips, "host_pressure") = 0
    /\ ~InOut(MsgHostPressure)

\* the depth_probe events folded
DepthProbes == {row \in WorkloadRows : EventKind(row) = "depth_probe"}

\* C7: n >= 1 depth probes, all rejected with DEPTH_EXCEEDED, give the histogram
\* {DEPTH_EXCEEDED: n} and total_depth_probe = n and the depth-guard message; the
\* message is emitted exactly when there is a depth probe and all of them were
\* rejected with DEPTH_EXCEEDED.
C7_DepthGuard ==
    pc = "done" =>
        LET n == CountIn(workload_rows, DepthProbes)
            exceeded == CopiesIn(DepthExceeded, workload_rows)
        IN  /\ (n >= 1 /\ exceeded = n) =>
                   /\ workload.depth_probe_rejections = <<[k |-> "DEPTH_EXCEEDED", n |-> n]>>
                   /\ workload.total_depth_probe = n
                   /\ InOut(MsgDepthGuard)
            /\ InOut(MsgDepthGuard) <=> (n >= 1 /\ exceeded = n)
            /\ InOut(MsgDepthGuard) <=>
                   (/\ workload.total_depth_probe > 0
                    /\ CounterGet(workload.depth_probe_rejections, "DEPTH_EXCEEDED")
                           = workload.total_depth_probe)

\* three depth probes, all rejected with DEPTH_EXCEEDED, beside another workload event
C7_Witness ==
    /\ pc = "done"
    /\ CopiesIn(DepthExceeded, workload_rows) = 3
    /\ BagCardinality(workload_rows) = 4
    /\ CountIn(workload_rows, DepthProbes) = 3
    /\ InOut(MsgDepthGuard)

\* the largest value of a numeric field over the status samples folded, 0 if none
RECURSIVE SetMax(_)
SetMax(S) ==
    IF S = {} THEN 0
    ELSE LET x == CHOOSE x \in S : TRUE IN Max2(x, SetMax(S \ {x}))

StatusMaxRuns ==
    SetMax({PyInt(DictGet(row.activeRuns, Num(0))) : row \in BagToSet(status_rows)})

StatusMaxSlots ==
    SetMax({PyInt(DictGet(row.activeSlots, Num(0))) : row \in BagToSet(status_rows)})

\* C8: max_active_runs is the larger of the highest value the live active-run
\* counter reached during the event fold (the event-derived maximum follows the
\* counter at every step) and the largest activeRuns of a status sample; the same
\* for max_active_slots.
C8_MaximaReconciled ==
    /\ [](pc \in {"status", "workload", "done"} =>
            /\ metrics.max_active_runs =
                   Max2(metrics.max_active_runs_from_events, StatusMaxRuns)
            /\ metrics.max_active_slots =
                   Max2(metrics.max_active_slots_from_events, StatusMaxSlots))
    /\ [](pc = "events" /\ events = EmptyBag =>
            /\ metrics.max_active_runs_from_events = 0
            /\ metrics.max_active_slots_from_events = 0)
    /\ [][pc = "events" =>
            /\ metrics'.max_active_runs_from_events =
                   Max2(metrics.max_active_runs_from_events,
                        metrics'.active_runs_from_events)
            /\ metrics'.max_active_slots_from_events =
                   Max2(metrics.max_active_slots_from_events,
                        metrics'.active_slots_from_events)]_vars

\* the events give the larger run maximum, the samples the larger slot maximum
C8_Witness ==
    /\ pc = "done"
    /\ metrics.max_active_runs_from_events > StatusMaxRuns
    /\ StatusMaxRuns > 0
    /\ StatusMaxSlots > metrics.max_active_slots_from_events
    /\ metrics.max_active_slots_from_events > 0

\* C9: compute_metrics and compute_workload_metrics never fail, whatever the
\* optional fields of a record hold.
C9_NeverFails == pc # "error"

(***************************************************************************)
(* The scenario of SpecScenario.                                           *)
(***************************************************************************)
\* the log holds exactly 5 run_allowed, 3 run_end and 2 run_denied{RUN_CAP_REACHED}
ScenarioLog ==
    /\ CopiesIn(RunAllowed, events) = 5
    /\ CopiesIn(RunEnd, events) = 3
    /\ CopiesIn(RunDeniedCap, events) = 2
    /\ BagCardinality(events) = 10
    /\ status_rows = EmptyBag

ScenarioDenials ==
    /\ metrics.total_run_denied = 2
    /\ metrics.run_denials = <<[k |-> "RUN_CAP_REACHED", n |-> 2]>>
    /\ InOut(MsgRaiseRuns)

\* C2 as stated: every log of 5 run_allowed, 3 run_end and 2 RUN_CAP_REACHED run
\* denials gives max_active_runs = 5, total_run_denied = 2, run_denials =
\* {RUN_CAP_REACHED: 2} and the raise-run-cap message.
C2_AnyOrder ==
    (pc = "done" /\ ScenarioLog) => (metrics.max_active_runs = 5 /\ ScenarioDenials)

\* C2 amended: such a log gives total_run_denied = 2, run_denials =
\* {RUN_CAP_REACHED: 2} and the raise-run-cap message in any order; its
\* max_active_runs is between 2 and 5, the event-derived maximum never decreases,
\* and as long as no run_end has been folded it is the number of run_allowed folded
\* (so it is 5 when the run_allowed events precede the run_end events).
C2_OrderedLog ==
    /\ []((pc = "done" /\ ScenarioLog) =>
            /\ ScenarioDenials
            /\ metrics.max_active_runs \in 2..5
            /\ metrics.max_active_runs = metrics.max_active_runs_from_events)
    /\ [](CopiesIn(RunEnd, events) = 0 =>
            metrics.max_active_runs_from_events = CopiesIn(RunAllowed, events))
    /\ [][metrics'.max_active_runs_from_events >= metrics.max_active_runs_from_events]_vars

\* the scenario's log with a maximum of 5
C2_Witness ==
    /\ pc = "done"
    /\ ScenarioLog
    /\ metrics.max_active_runs = 5
    /\ InOut(MsgRaiseRuns)

(***************************************************************************)
(* ratio, under SpecRatio.                                                 *)
(***************************************************************************)
\* C5: ratio returns exactly 0 whenever the denominator is <= 0 and numerator /
\* denominator otherwise, never a division fault; the ratios suggestions computes
\* on the aggregates of empty inputs are defined (and 0).
C5_SafeDivide ==
    /\ pc # "error"
    /\ pc = "ratio_done" =>
           /\ ratio_result.fault = ""
           /\ ratio_args[2] <= 0 => ratio_result.num = 0
           /\ ratio_args[2] > 0 =>
                  /\ ratio_result.den > 0
                  /\ ratio_result.num * ratio_args[2] = ratio_args[1] * ratio_result.den
    /\ pc = "done" =>
           \A f \in DOMAIN ratios : ratios[f].fault = "" /\ ratios[f].num = 0

\* a call with a non-zero numerator and denominator 0 has returned 0
C5_Witness ==
    /\ pc = "ratio_done"
    /\ ratio_args = <<3, 0>>
    /\ ratio_result.num = 0
    /\ ratio_result.fault = ""

(***************************************************************************)
(* The loader, under SpecLoad.                                             *)
(***************************************************************************)
\* the files among the entries of the directory
Files == {e.tail : e \in {x \in dir : x.is_file}}

\* a rotated log: a file with a purely numeric suffix
Numeric(tail) == tail # TailBase /\ IsDigit(RSplitLast(Name(tail)))

\* a file with another suffix
Other(tail) == tail # TailBase /\ ~IsDigit(RSplitLast(Name(tail)))

\* the rows of the lines that are JSON objects, in line order
RECURSIVE ObjectRows(_)
ObjectRows(lines) ==
    IF lines = <<>> THEN <<>>
    ELSE IF Head(lines).form = "object"
         THEN <<Head(lines).row>> \o ObjectRows(Tail(lines))
         ELSE ObjectRows(Tail(lines))

\* the object rows of the first k files of event_files, file after file
RECURSIVE RowsOfFiles(_)
RowsOfFiles(k) ==
    IF k = 0 THEN <<>>
    ELSE RowsOfFiles(k - 1) \o ObjectRows(content[event_files[k]])

\* the base log and its rotations .2 and .10, where the order of the files
\* decides the maximum: run_allowed, run_end, run_allowed
RotatedLog ==
    /\ Files = {TailBase, Tail2, Tail10}
    /\ content[TailBase] = <<Line("object", RunAllowed)>>
    /\ content[Tail2] = <<Line("object", RunEnd)>>
    /\ content[Tail10] = <<Line("object", RunAllowed)>>

\* C3: the admission logs are folded base file first, then the files with a
\* numeric suffix in ascending numeric order (base, .2, .10); the rows of an earlier
\* file precede those of a later file, each file's rows in line order; and the
\* maximum reconstructed is that of this order.
C3_RotationOrder ==
    /\ pc # "paths" =>
           /\ {event_files[i] : i \in 1..Len(event_files)} = Files
           /\ Len(event_files) = Cardinality(Files)
           /\ TailBase \in Files => event_files[1] = TailBase
           /\ \A i, j \in 1..Len(event_files) :
                  (i < j /\ Numeric(event_files[i]) /\ Numeric(event_files[j])) =>
                      StrToInt(RSplitLast(Name(event_files[i])))
                          <= StrToInt(RSplitLast(Name(event_files[j])))
           /\ Files = {TailBase, Tail2, Tail10} => event_files = <<TailBase, Tail2, Tail10>>
    /\ pc = "load_events" => loaded = RowsOfFiles(file_idx - 1)
    /\ pc \in {"events", "status", "workload"} => loaded = RowsOfFiles(Len(event_files))
    /\ (pc \in {"status", "workload"} /\ RotatedLog) => metrics.max_active_runs = 1

\* base, .2 and .10 were loaded and folded in that order
C3_Witness ==
    /\ pc = "workload"
    /\ RotatedLog
    /\ event_files = <<TailBase, Tail2, Tail10>>
    /\ loaded = <<RunAllowed, RunEnd, RunAllowed>>
    /\ metrics.max_active_runs = 1

\* C4: in the order admission_event_paths returns, every file with a purely
\* numeric suffix precedes every file with another suffix, and the files with
\* another suffix are in lexicographic order of their names.
C4_NumericBeforeOthers ==
    pc # "paths" =>
        \A i, j \in 1..Len(event_files) :
            /\ (Numeric(event_files[i]) /\ Other(event_files[j])) => i < j
            /\ (i < j /\ Other(event_files[i]) /\ Other(event_files[j])) =>
                   StrLess(Name(event_files[i]), Name(event_files[j]))

\* C10: load_ndjson returns exactly the lines that parse as a JSON object, in
\* line order, whatever the other lines are, and raises nothing; a missing file
\* gives the empty sequence.
C10_ObjectsInOrder ==
    /\ err = ""
    /\ (pc = "load_events" /\ file_idx <= Len(event_files)) =>
           rows = ObjectRows(content[event_files[file_idx]])
    /\ pc = "load_status" => rows = ObjectRows(status_lines)
    /\ pc \in {"events", "status", "workload"} =>
           /\ loaded_status = ObjectRows(status_lines)
           /\ status_file = "missing" => loaded_status = <<>>

\* a JSON value that is no object and a line that is not JSON, then an object
C10_Witness ==
    /\ pc = "workload"
    /\ status_lines = <<Line("value", EmptySample), Line("garbage", EmptySample),
                        Line("object", OkSample)>>
    /\ loaded_status = <<OkSample>>
    /\ metrics.max_active_runs = 3

(***************************************************************************)
(* The ranked lists of the report.                                         *)
(***************************************************************************)
\* the labels of a histogram, in the order in which they were first counted
Labels(c) == [i \in 1..Len(c) |-> c[i].k]

\* the labels of c are the first labels of d, in the same order
KeepsLabels(c, d) == Len(c) <= Len(d) /\ \A i \in 1..Len(c) : d[i].k = c[i].k

\* the position of a label among the labels of a histogram
Rank(c, k) == CHOOSE i \in 1..Len(c) : c[i].k = k

\* the histograms the report ranks, in the order of its sections
ReportCounters(m, w) ==
    <<m.breaker_trips, m.run_denials, m.slot_denials, w.run_denials,
      w.gap_probe_rejections, m.tool_gate_denials, m.event_counts>>

ReportTitles ==
    <<"Circuit trips by reason", "Run denials by code", "Slot denials by code",
      "Workload denials by code", "Gap-probe outcomes", "Tool-gate denials by code",
      "Raw Event Counts">>

\* lines lists every label of c once with its count, larger counts first and
\* equal counts in the order of the labels of c
RankedFrom(lines, c) ==
    /\ Len(lines) = Len(c)
    /\ \A i \in 1..Len(lines) :
           CounterHas(c, lines[i].k) /\ CounterGet(c, lines[i].k) = lines[i].n
    /\ \A i, j \in 1..Len(lines) :
           i < j => \/ lines[i].n > lines[j].n
                    \/ /\ lines[i].n = lines[j].n
                       /\ Rank(c, lines[i].k) < Rank(c, lines[j].k)

\* C11: every ranked list of the report lists the labels of its histogram by
\* count in non-increasing order, labels with equal counts in the order in which
\* they were first encountered (a label enters a histogram behind the labels
\* counted before it and keeps its place; an event kind enters with the first
\* event of that kind); the sections are always the same seven, in the same order.
C11_RankedLists ==
    /\ [](pc = "done" =>
             /\ [i \in 1..Len(report) |-> report[i].title] = ReportTitles
             /\ \A i \in 1..Len(report) :
                    LET c == ReportCounters(metrics, workload)[i]
                    IN  IF c = <<>>
                        THEN report[i].lines = (IF i = 7 THEN <<>> ELSE NonePlaceholder)
                        ELSE RankedFrom(report[i].lines, c))
    /\ [][/\ metrics' # metrics =>
                 /\ KeepsLabels(metrics.event_counts, metrics'.event_counts)
                 /\ KeepsLabels(metrics.breaker_trips, metrics'.breaker_trips)
                 /\ KeepsLabels(metrics.run_denials, metrics'.run_denials)
                 /\ KeepsLabels(metrics.slot_denials, metrics'.slot_denials)
                 /\ KeepsLabels(metrics.tool_gate_denials, metrics'.tool_gate_denials)
          /\ workload' # workload =>
                 /\ KeepsLabels(workload.run_denials, workload'.run_denials)
                 /\ KeepsLabels(workload.gap_probe_rejections,
                                workload'.gap_probe_rejections)
          /\ (pc = "events" /\ events' # events) =>
                 \A row \in EventRows :
                     events' = events (+) SetToBag({row}) =>
                         Labels(metrics'.event_counts) =
                             IF CounterHas(metrics.event_counts, EventKind(row))
                             THEN Labels(metrics.event_counts)
                             ELSE Append(Labels(metrics.event_counts), EventKind(row))]_vars

\* run_end came first but run_allowed, counted twice, is listed first; run_end
\* and slot_allowed, counted once each, follow in the order of their first events;
\* no circuit tripped
C11_Witness ==
    /\ pc = "done"
    /\ Labels(metrics.event_counts) = <<"run_end", "run_allowed", "slot_allowed">>
    /\ report[7].lines = <<[k |-> "run_allowed", n |-> 2], [k |-> "run_end", n |-> 1],
                           [k |-> "slot_allowed", n |-> 1]>>
    /\ report[1].lines = NonePlaceholder

(***************************************************************************)
(* The reducers called twice on the same lists.                            *)
(***************************************************************************)
\* locals that keep what the call before left in them
FreshMetrics_kept(left) == left

\* compute_metrics starts: its counters and histograms are locals created by
\* the call (lines 106-120), whatever an earlier call left behind
FreshMetrics(left) == InitMetrics

\* the three lists, of MaxTwice rows together
InitTwice ==
    /\ pc = "call"
    /\ dir = {}
    /\ content = <<>>
    /\ status_file = "unknown"
    /\ status_lines = <<>>
    /\ event_files = <<>>
    /\ file_idx = 0
    /\ rows = <<>>
    /\ cursor = 1
    /\ Unfolded /\ NoRatioCall
    /\ previous = <<>>
    /\ \E a, b, c \in 0..MaxTwice :
           /\ a + b + c <= MaxTwice
           /\ loaded \in [1..a -> EventRows]
           /\ loaded_status \in [1..b -> StatusRows]
           /\ loaded_workload \in [1..c -> WorkloadRows]

\* compute_metrics(events, status_rows) is called, line 473
CallComputeMetrics ==
    /\ pc = "call"
    /\ pc' = "events"
    /\ metrics' = FreshMetrics(metrics)
    /\ cursor' = 1
    /\ UNCHANGED <<err, dir, content, status_file, status_lines, event_files, file_idx,
                   rows, loaded, loaded_status, events, status_rows, workload_rows,
                   workload, sugVars, ratioVars, twiceVars>>

\* compute_metrics returns and compute_workload_metrics(workload_rows) is called,
\* line 474
CallComputeWorkload ==
    /\ cursor > Len(loaded_status)
    /\ ReturnMetrics
    /\ cursor' = 1
    /\ UNCHANGED <<dir, content, status_file, status_lines, event_files, file_idx,
                   rows, loaded, loaded_status, twiceVars>>

\* compute_workload_metrics folds the next workload event
LoadedWorkload ==
    /\ cursor <= Len(loaded_workload)
    /\ WorkloadLoop(loaded_workload[cursor])
    /\ cursor' = cursor + 1
    /\ UNCHANGED <<dir, content, status_file, status_lines, event_files, file_idx,
                   rows, loaded, loaded_status, twiceVars>>

\* compute_workload_metrics returns, line 240
ReturnWorkload ==
    /\ pc = "workload"
    /\ cursor > Len(loaded_workload)
    /\ pc' = "returned"
    /\ UNCHANGED <<err, loadVars, foldVars, sugVars, ratioVars, twiceVars>>

\* what a run of the two reducers ended with
Outcome == [err |-> err, metrics |-> metrics, workload |-> workload]

\* the reducers are called again on the same lists
CallAgain ==
    /\ pc \in {"returned", "error"}
    /\ previous = <<>>
    /\ previous' = <<Outcome>>
    /\ pc' = "call"
    /\ err' = ""
    /\ UNCHANGED <<loadVars, foldVars, sugVars, ratioVars, loaded_workload>>

NextTwice ==
    \/ CallComputeMetrics
    \/ LoadedEvent /\ UNCHANGED twiceVars
    \/ EndLoadedEvents /\ UNCHANGED twiceVars
    \/ LoadedStatus /\ UNCHANGED twiceVars
    \/ CallComputeWorkload
    \/ LoadedWorkload
    \/ ReturnWorkload
    \/ CallAgain

SpecTwice == InitTwice /\ [][NextTwice]_vars

TimesInOut(msgs) == Cardinality({i \in 1..Len(out) : out[i] \in msgs})

\* the rows of a kind
EventsOfKind(kind) == {row \in EventRows : EventKind(row) = kind}

\* C13: the list of suggestions holds exactly one of the two run-cap messages:
\* the raise message if and only if the run-denial histogram counts
\* RUN_CAP_REACHED (a run_denied event with that code was folded), otherwise the
\* no-evidence message.
C13_RunCapMessage ==
    pc = "done" =>
        /\ TimesInOut({MsgRaiseRuns, MsgKeepRuns}) = 1
        /\ InOut(MsgRaiseRuns) <=> CounterGet(metrics.run_denials, "RUN_CAP_REACHED") > 0
        /\ InOut(MsgRaiseRuns) <=> CountIn(events, {RunDeniedCap}) > 0
        /\ InOut(MsgKeepRuns) <=> ~InOut(MsgRaiseRuns)

\* run denials were counted, none of them RUN_CAP_REACHED: the no-evidence message
C13_Witness ==
    /\ pc = "done"
    /\ metrics.total_run_denied >= 2
    /\ CounterGet(metrics.run_denials, "RUN_CAP_REACHED") = 0
    /\ InOut(MsgKeepRuns)
    /\ ~InOut(MsgRaiseRuns)

Share(n, d) == IF d = 0 THEN <<0, 1>> ELSE <<n, d>>

ShareLess(a, b) == a[1] * b[2] < b[1] * a[2]

GapTrips == {row \in EventsOfKind("circuit_open") : row.reason = Text("call_result_gap")}

\* C16: the tighten-breaker recommendation is in the list if and only if at least
\* 3 circuit_open events with reason call_result_gap were folded, whatever the
\* number of trips with another reason.
C16_GapBreaker ==
    pc = "done" => (InOut(MsgGapBreaker) <=> CountIn(events, GapTrips) >= 3)

\* exactly 3 call_result_gap trips and a host_pressure trip: the recommendation
C16_Witness ==
    /\ pc = "done"
    /\ CountIn(events, GapTrips) = 3
    /\ CountIn(events, EventsOfKind("circuit_open")) = 4
    /\ InOut(MsgGapBreaker)

\* none of the conditions of the rule table holds
NoRuleFired ==
    /\ ~RunCapRule(metrics)
    /\ SlotCapRule(metrics, workload, ratios) = <<>>
    /\ ~GapRule(metrics)
    /\ ~DepthRule(workload)
    /\ ~InflatedRule(ratios)
    /\ ~HostPressureRule(metrics)

C18_DenialTotals ==
    /\ metrics.total_run_denied = CountIn(events, EventsOfKind("run_denied"))
    /\ metrics.total_run_denied = CounterTotal(metrics.run_denials)
    /\ metrics.total_slot_denied = CountIn(events, EventsOfKind("slot_denied"))
    /\ metrics.total_slot_denied = CounterTotal(metrics.slot_denials)
    /\ CounterTotal(metrics.tool_gate_denials)
           = CountIn(events, EventsOfKind("tool_gate_denied"))
    /\ CountIn(events, EventsOfKind("tool_gate_denied")) > 0 =>
           /\ "total_tool_gate_denied" \in DOMAIN metrics
           /\ metrics.total_tool_gate_denied = CounterTotal(metrics.tool_gate_denials)

(***************************************************************************)
(* The workload reducer's frame.                                           *)
(***************************************************************************)
\* the number a workload event gives under a key of its detail, 0 when absent
Given(row, v) == IF row.detail.t = "map" /\ v.t = "int" THEN v.n ELSE 0

\* the step folds row into the workload aggregate
FoldsWorkload(row) ==
    /\ pc = "workload"
    /\ pc' = "workload"
    /\ workload_rows' = workload_rows (+) SetToBag({row})

\* C19: a step of compute_workload_metrics changes burst_slot_granted and
\* burst_slot_denied only on a run_completed event whose slotAttempts is greater
\* than its requestedParallelism (absent values counting as 0), and then by that
\* event's grantedSlots and deniedSlots.
C19_BurstTotals ==
    [][workload_rows' # workload_rows =>
           \A row \in WorkloadRows :
               FoldsWorkload(row) =>
                   LET burst == /\ EventKind(row) = "run_completed"
                                /\ Given(row, row.slotAttempts)
                                       > Given(row, row.requestedParallelism)
                   IN  /\ workload'.burst_slot_granted = workload.burst_slot_granted
                              + (IF burst THEN Given(row, row.grantedSlots) ELSE 0)
                       /\ workload'.burst_slot_denied = workload.burst_slot_denied
                              + (IF burst THEN Given(row, row.deniedSlots) ELSE 0)]_vars

\* a burst run (3 attempts for 2 requested), a run that attempted what it
\* requested and a run without requestedParallelism and grantedSlots were folded:
\* the totals are those of the first and the third
C19_Witness ==
    /\ pc = "workload"
    /\ workload.total_run_completed = 3
    /\ CountIn(workload_rows, {RunCompleted("single", 2, 2, 1, 1)}) = 1
    /\ CountIn(workload_rows, {RunCompleted("team", 3, 2, 2, 1)}) = 1
    /\ workload.burst_slot_granted = 2
    /\ workload.burst_slot_denied = 3

\* the label a probe is expected under
ExpectedLabel(row) ==
    IF row.ok = Flag(TRUE) THEN "ok"
    ELSE IF row.rejection.t = "str" THEN row.rejection.s ELSE "UNKNOWN"

\* the workload events of a kind
WorkloadOfKind(kind) == {row \in WorkloadRows : EventKind(row) = kind}

\* C20: a depth_probe changes only the kind histogram, total_depth_probe and
\* depth_probe_rejections, a gap_probe only the kind histogram and
\* gap_probe_rejections, each tallied under "ok" when detail.ok is true and under
\* its rejection code (default "UNKNOWN") otherwise; the operational denial ratio
\* suggestions computes is that of the run_denied and run_completed events alone.
C20_ProbesApart ==
    /\ [][workload_rows' # workload_rows =>
              \A row \in WorkloadOfKind("depth_probe") \cup WorkloadOfKind("gap_probe") :
                  FoldsWorkload(row) =>
                      LET depth == EventKind(row) = "depth_probe"
                      IN  workload' =
                                [workload EXCEPT
                                    !.event_counts = CounterInc(@, EventKind(row)),
                                    !.total_depth_probe = IF depth THEN @ + 1 ELSE @,
                                    !.depth_probe_rejections =
                                        IF depth THEN CounterInc(@, ExpectedLabel(row))
                                        ELSE @,
                                    !.gap_probe_rejections =
                                        IF depth THEN @
                                        ELSE CounterInc(@, ExpectedLabel(row))]]_vars
    /\ [](pc = "done" =>
             LET denied == CountIn(workload_rows, WorkloadOfKind("run_denied"))
                 completed == CountIn(workload_rows, WorkloadOfKind("run_completed"))
             IN  ratios.operational_denial_ratio.num * Share(denied, completed + denied)[2]
                        = Share(denied, completed + denied)[1]
                              * ratios.operational_denial_ratio.den)

\* a denied run, a completed run, a depth probe and a gap probe were folded: the
\* operational denial ratio is 1/2
C20_Witness ==
    /\ pc = "done"
    /\ CountIn(workload_rows, WorkloadOfKind("depth_probe")) = 1
    /\ CountIn(workload_rows, WorkloadOfKind("gap_probe")) = 1
    /\ workload.total_run_denied = 1
    /\ workload.total_run_completed = 1
    /\ workload.total_depth_probe = 1
    /\ ratios.operational_denial_ratio = Float(1, 2)

\* the samples folded whose pressure mapping holds the severity s
WithSeverity(s) ==
    {row \in StatusRows : row.pressure.t = "map" /\ row.severity = Text(s)}

\* the samples folded whose circuit mapping holds the status s
WithCircuit(s) ==
    {row \in StatusRows : row.circuit.t = "map" /\ row.status = Text(s)}

\* the largest maxGap of a status sample folded, 0 if none
StatusMaxGap ==
    SetMax({PyInt(DictGet(row.maxGap, Num(0))) : row \in BagToSet(status_rows)})

\* C21: once compute_metrics has folded status samples, critical + warn + ok
\* sample counts equal the number of samples and so do open + closed sample
\* counts; the critical, warn and open counts are the samples that say so, every
\* other sample (severity or circuit status absent or unrecognised) is counted
\* as ok and as closed; max_gap is the largest maxGap of a sample, 0 with none.
C21_SamplesBucketed ==
    pc \in {"status", "workload", "done"} =>
        LET n == BagCardinality(status_rows)
            critical == CountIn(status_rows, WithSeverity("critical"))
            warn == CountIn(status_rows, WithSeverity("warn"))
            open == CountIn(status_rows, WithCircuit("open"))
        IN  /\ metrics.critical_status_samples
                   + metrics.warn_status_samples + metrics.ok_status_samples = n
            /\ metrics.circuit_open_samples + metrics.circuit_closed_samples = n
            /\ metrics.critical_status_samples = critical
            /\ metrics.warn_status_samples = warn
            /\ metrics.ok_status_samples = n - critical - warn
            /\ metrics.circuit_open_samples = open
            /\ metrics.circuit_closed_samples = n - open
            /\ metrics.max_gap = StatusMaxGap

\* a sample without severity and circuit status, one with a severity and a circuit
\* status the fold does not name, and a critical sample with an open circuit were
\* folded: two samples are ok and closed, the largest gap is 5
C21_Witness ==
    /\ pc = "workload"
    /\ CopiesIn(EmptySample, status_rows) = 1
    /\ CopiesIn(Sample(3, 0, 5, "critical", "open"), status_rows) = 1
    /\ CountIn(status_rows, WithSeverity("elevated") \cap WithCircuit("half_open")) = 1
    /\ metrics.ok_status_samples = 2
    /\ metrics.circuit_closed_samples = 2
    /\ metrics.critical_status_samples = 1
    /\ metrics.max_gap = 5

(***************************************************************************)
(* Order of the rows and the aggregate.  The events and samples folded are *)
(* kept as bags, and the behaviours of Spec fold the rows of a bag in      *)
(* every order: a field that is a function of the bags is the same for     *)
(* every permutation.                                                      *)
(***************************************************************************)
CodeLabel(row) == PyStr(DictGet(row.code, Text("UNKNOWN")))

ReasonLabel(row) == PyStr(DictGet(row.reason, Text("unknown")))

\* histogram c holds, for every label the events of the given kind folded give
\* (of any kind when kind is ""), the number of these events, and no other label
Tallies(c, kind, Label(_)) ==
    LET folded == {row \in BagToSet(events) : kind \in {"", EventKind(row)}}
    IN  /\ \A row \in folded :
               CounterGet(c, Label(row))
                   = CountIn(events, {r \in folded : Label(r) = Label(row)})
        /\ \A i \in 1..Len(c) : \E row \in folded : Label(row) = c[i].k

\* what the event loop assigns other than the two high-water marks and the live
\* counters behind them
Tallied(m) ==
    <<m.event_counts, m.run_denials, m.slot_denials, m.tool_gate_denials,
      m.breaker_trips, m.total_run_allowed, m.total_run_denied,
      m.total_slot_allowed, m.total_slot_denied>>

\* what the status loop assigns other than the two high-water marks
Sampled(m) ==
    <<m.max_gap, m.critical_status_samples, m.warn_status_samples,
      m.ok_status_samples, m.circuit_open_samples, m.circuit_closed_samples>>

\* the totals and the histograms are the numbers of events folded
EventTallies ==
    /\ metrics.total_run_allowed = CountIn(events, EventsOfKind("run_allowed"))
    /\ metrics.total_run_denied = CountIn(events, EventsOfKind("run_denied"))
    /\ metrics.total_slot_allowed = CountIn(events, EventsOfKind("slot_allowed"))
    /\ metrics.total_slot_denied = CountIn(events, EventsOfKind("slot_denied"))
    /\ Tallies(metrics.event_counts, "", EventKind)
    /\ Tallies(metrics.run_denials, "run_denied", CodeLabel)
    /\ Tallies(metrics.slot_denials, "slot_denied", CodeLabel)
    /\ Tallies(metrics.tool_gate_denials, "tool_gate_denied", CodeLabel)
    /\ Tallies(metrics.breaker_trips, "circuit_open", ReasonLabel)

\* max_gap and the sample counts are given by the bag of samples folded, the two
\* high-water marks by that bag and the event-derived maxima
SampleTallies ==
    LET n == BagCardinality(status_rows)
        critical == CountIn(status_rows, WithSeverity("critical"))
        warn == CountIn(status_rows, WithSeverity("warn"))
        open == CountIn(status_rows, WithCircuit("open"))
    IN  /\ Sampled(metrics)
               = <<StatusMaxGap, critical, warn, n - critical - warn, open, n - open>>
        /\ metrics.max_active_runs
               = Max2(metrics.max_active_runs_from_events, StatusMaxRuns)
        /\ metrics.max_active_slots
               = Max2(metrics.max_active_slots_from_events, StatusMaxSlots)

\* C22: the totals and the count under every label of every histogram are the
\* numbers of events folded, whatever their order (they are so throughout the
\* event loop, and no later step changes them); throughout the status loop the
\* sample counts and max_gap are given by the bag of samples, and the two
\* high-water marks by that bag and the event-derived maxima, whatever the order
\* of the samples; a step of the event loop leaves max_gap and the sample counts
\* alone, a step of the status loop the totals and histograms, and nothing
\* changes the aggregate after the status loop.
C22_OrderConfined ==
    /\ [](pc = "events" => EventTallies)
    /\ [](pc = "status" => SampleTallies)
    /\ [][/\ pc = "events" => Sampled(metrics') = Sampled(metrics)
          /\ pc' # "events" =>
                /\ events' = events
                /\ Tallied(metrics') = Tallied(metrics)
                /\ metrics'.max_active_runs_from_events
                       = metrics.max_active_runs_from_events
                /\ metrics'.max_active_slots_from_events
                       = metrics.max_active_slots_from_events
          /\ pc' \notin {"events", "status"} => metrics' = metrics
          /\ pc' \in {"workload", "done"} => status_rows' = status_rows]_vars

\* two runs were allowed with a run_end between them, so the run high-water mark
\* of the events is 1 where the order allowed, allowed, ended gives 2; the total
\* is 2 in either order, and a status sample was folded after the events
C22_Witness ==
    /\ pc = "status"
    /\ events = SetToBag({RunEnd}) (+) SetToBag({RunAllowed}) (+) SetToBag({RunAllowed})
    /\ metrics.max_active_runs_from_events = 1
    /\ metrics.total_run_allowed = 2
    /\ CounterGet(metrics.event_counts, "run_allowed") = 2
    /\ CopiesIn(Sample(0, 1, 2, "warn", "closed"), status_rows) = 1
    /\ metrics.max_active_runs = 1
    /\ metrics.warn_status_samples = 1

(***************************************************************************)
(* The shape of the list of suggestions.                                   *)
(***************************************************************************)
\* the messages of the six rules, in the order of the rules
RuleMessages ==
    <<{MsgRaiseRuns, MsgKeepRuns}, {MsgBurstSlots, MsgTuneSlots}, {MsgGapBreaker},
      {MsgDepthGuard}, {MsgInflated}, {MsgHostPressure}>>

\* the rule a message belongs to, 0 for a message of no rule
RuleOf(msg) ==
    IF \E i \in 1..Len(RuleMessages) : msg \in RuleMessages[i]
    THEN CHOOSE i \in 1..Len(RuleMessages) : msg \in RuleMessages[i]
    ELSE 0

\* C23: the list suggestions returns is never empty, starts with one of the two
\* run-cap messages, holds messages of the six rules only, those in the order of
\* the rules with at most one message of a rule (so none repeated), and never
\* holds the no-urgent-change statement.
C23_ListShape ==
    pc = "done" =>
        /\ out # <<>>
        /\ Head(out) \in {MsgRaiseRuns, MsgKeepRuns}
        /\ \A i \in 1..Len(out) : RuleOf(out[i]) > 0
        /\ \A i, j \in 1..Len(out) : i < j => RuleOf(out[i]) < RuleOf(out[j])
        /\ ~InOut(MsgNoChange)

\* a RUN_CAP_REACHED denial, a critical sample and a rejected depth probe were
\* folded: four rules emitted, the run-cap rule first
C23_Witness ==
    /\ pc = "done"
    /\ out = <<MsgRaiseRuns, MsgDepthGuard, MsgInflated, MsgHostPressure>>
    /\ CopiesIn(RunDeniedCap, events) = 1
====
